---------------------------- MODULE Spec2Model ----------------------------
(***************************************************************************)
(* A model of the ai-review package of arcreflex/code-agent-tools:         *)
(*   - the secret scanner (secrets.ts),                                    *)
(*   - the context packer (context.ts),                                    *)
(*   - the decision validator and the model call (openai.ts),              *)
(*   - the job store (jobs.ts), the worker (worker.ts), the review CLI and *)
(*     the tail client (index.ts of the job-based CLI),                    *)
(*   - the pre-receive aggregator (packages/ai-review/src/index.ts).       *)
(* Texts are sequences of one-character strings.                           *)
(***************************************************************************)
EXTENDS Integers, Sequences, FiniteSets, TLC

VARIABLES
    scan,       \* the scanner on its own: input, result, result of the rescan
    ctx,        \* the context packer on its own: inputs and result
    pr,         \* a run of the pre-receive command
    repo,       \* working tree and environment seen by the review CLI
    jobs,       \* .ai-review/jobs/<key>.json, per key
    reviews,    \* .ai-review/reviews/<key>.json, per key
    inv,        \* review CLI invocations (handleReview)
    wk,         \* worker processes (runWorker)
    apiCalls,   \* requests received by the model provider, with its answers
    ioFailures, \* number of file writes that failed so far
    tail        \* tail commands (tailJob)

vars == <<scan, ctx, pr, repo, jobs, reviews, inv, wk, apiCalls, ioFailures, tail>>

NULL == "null"

(***************************************************************************)
(* Text helpers                                                            *)
(***************************************************************************)
Rep(c, n) == [i \in 1..n |-> c]

RECURSIVE Concat(_)
Concat(ss) == IF ss = <<>> THEN <<>> ELSE Head(ss) \o Concat(Tail(ss))

UpperLetters == <<"A","B","C","D","E","F","G","H","I","J","K","L","M",
                  "N","O","P","Q","R","S","T","U","V","W","X","Y","Z">>
LowerLetters == <<"a","b","c","d","e","f","g","h","i","j","k","l","m",
                  "n","o","p","q","r","s","t","u","v","w","x","y","z">>
Digits == {"0","1","2","3","4","5","6","7","8","9"}
Range(s) == {s[i] : i \in DOMAIN s}

\* [A-Za-z0-9]
AlnumChars == Range(UpperLetters) \cup Range(LowerLetters) \cup Digits
\* [A-Za-z0-9_-]
WordChars == AlnumChars \cup {"_", "-"}
\* [A-Z ]
UpperSpaceChars == Range(UpperLetters) \cup {" "}
\* \s
Whitespace == {" ", "\n", "\t", "\r"}
\* ["']
Quotes == {"\"", "'"}

\* case folding of the /i flag
Fold(c) == IF c \in Range(UpperLetters)
           THEN LowerLetters[CHOOSE i \in 1..26 : UpperLetters[i] = c]
           ELSE c

\* the literal lit occurs in t at (1-based) position i
LitAt(t, i, lit) ==
    /\ i >= 1
    /\ i + Len(lit) - 1 <= Len(t)
    /\ \A j \in 1..Len(lit) : t[i + j - 1] = lit[j]

LitAtCI(t, i, lit) ==
    /\ i >= 1
    /\ i + Len(lit) - 1 <= Len(t)
    /\ \A j \in 1..Len(lit) : Fold(t[i + j - 1]) = Fold(lit[j])

\* length of the longest run of characters of class starting at i (greedy quantifier)
RECURSIVE RunFrom(_, _, _)
RunFrom(t, i, class) ==
    IF i > Len(t) \/ t[i] \notin class THEN 0 ELSE 1 + RunFrom(t, i + 1, class)

\* one optional character of class at i: the position after it
Opt(t, i, class) == IF i <= Len(t) /\ t[i] \in class THEN i + 1 ELSE i

(***************************************************************************)
(* SECRET_PATTERNS                                                         *)
(***************************************************************************)
ApiKeyMinLen == 20
SecretMinLen == 16
GhpMinLen == 20
SkMinLen == 20
ExcerptLen == 80

REDACTED == <<"[","R","E","D","A","C","T","E","D","]">>

PatternLabels == <<"Generic API key", "Secret assignment", "PEM private key",
                   "GitHub token", "OpenAI secret key">>

PemBegin == <<"-","-","-","-","-","B","E","G","I","N"," ">>
PemEnd == <<"P","R","I","V","A","T","E"," ","K","E","Y","-","-","-","-","-">>

\* Each matcher gives the position after the match of the pattern at i, or 0.
\* /api[_-]?key\s*[:=]\s*["']?[A-Za-z0-9_-]{20,}["']?/i
MatchApiKey(t, i) ==
    LET b == Opt(t, i + 3, {"_", "-"})
        d == (b + 3) + RunFrom(t, b + 3, Whitespace)
        g == Opt(t, (d + 1) + RunFrom(t, d + 1, Whitespace), Quotes)
        n == RunFrom(t, g, WordChars)
    IN  IF /\ LitAtCI(t, i, <<"a","p","i">>)
           /\ LitAtCI(t, b, <<"k","e","y">>)
           /\ d <= Len(t) /\ t[d] \in {":", "="}
           /\ n >= ApiKeyMinLen
        THEN Opt(t, g + n, Quotes)
        ELSE 0

\* /secret\s*[:=]\s*["']?[A-Za-z0-9_-]{16,}["']?/i
MatchSecret(t, i) ==
    LET d == (i + 6) + RunFrom(t, i + 6, Whitespace)
        g == Opt(t, (d + 1) + RunFrom(t, d + 1, Whitespace), Quotes)
        n == RunFrom(t, g, WordChars)
    IN  IF /\ LitAtCI(t, i, <<"s","e","c","r","e","t">>)
           /\ d <= Len(t) /\ t[d] \in {":", "="}
           /\ n >= SecretMinLen
        THEN Opt(t, g + n, Quotes)
        ELSE 0

\* /-----BEGIN [A-Z ]+PRIVATE KEY-----/  (the greedy run backtracks to the
\* longest prefix after which the closing literal follows)
MatchPem(t, i) ==
    LET j == i + Len(PemBegin)
        n == RunFrom(t, j, UpperSpaceChars)
        ms == {m \in 1..n : LitAt(t, j + m, PemEnd)}
    IN  IF LitAt(t, i, PemBegin) /\ ms # {}
        THEN j + (CHOOSE m \in ms : \A m2 \in ms : m2 <= m) + Len(PemEnd)
        ELSE 0

\* /ghp_[A-Za-z0-9]{20,}/
MatchGhp(t, i) ==
    LET n == RunFrom(t, i + 4, AlnumChars)
    IN  IF LitAt(t, i, <<"g","h","p","_">>) /\ n >= GhpMinLen THEN i + 4 + n ELSE 0

\* /sk-[A-Za-z0-9]{20,}/
MatchSk(t, i) ==
    LET n == RunFrom(t, i + 3, AlnumChars)
    IN  IF LitAt(t, i, <<"s","k","-">>) /\ n >= SkMinLen THEN i + 3 + n ELSE 0

MatchAt(p, t, i) ==
    CASE p = 1 -> MatchApiKey(t, i)
      [] p = 2 -> MatchSecret(t, i)
      [] p = 3 -> MatchPem(t, i)
      [] p = 4 -> MatchGhp(t, i)
      [] p = 5 -> MatchSk(t, i)

\* the loop `while ((match = re.exec(input)) !== null)` of a global regex:
\* the leftmost match at or after lastIndex, then lastIndex := its end
RECURSIVE ExecAll(_, _, _)
ExecAll(p, t, from) ==
    LET starts == {i \in from..Len(t) : MatchAt(p, t, i) # 0}
    IN  IF starts = {} THEN <<>>
        ELSE LET i == CHOOSE x \in starts : \A y \in starts : x <= y
                 e == MatchAt(p, t, i)
             IN  <<[index |-> i, end |-> e]>> \o ExecAll(p, t, e)

\* String.prototype.replace(string, string): the first occurrence only
ReplaceFirst(t, s, r) ==
    LET occ == {i \in 1..Len(t) : LitAt(t, i, s)}
    IN  IF occ = {} THEN t
        ELSE LET i == CHOOSE x \in occ : \A y \in occ : x <= y
             IN  SubSeq(t, 1, i - 1) \o r \o SubSeq(t, i + Len(s), Len(t))

\* .replace(/\s+/g, " ")
RECURSIVE CollapseWs(_)
CollapseWs(t) ==
    IF t = <<>> THEN <<>>
    ELSE IF Head(t) \in Whitespace
         THEN <<" ">> \o CollapseWs(SubSeq(t, 1 + RunFrom(t, 1, Whitespace), Len(t)))
         ELSE <<Head(t)>> \o CollapseWs(Tail(t))

\* input.slice(0, index).split("\n").length
LineOf(t, index) == 1 + Cardinality({j \in 1..(index - 1) : t[j] = "\n"})

MinOf(a, b) == IF a < b THEN a ELSE b

SecretMatchOf(p, t, m) ==
    [pattern |-> PatternLabels[p],
     excerpt |-> CollapseWs(SubSeq(t, m.index, MinOf(Len(t), m.index + ExcerptLen - 1))),
     line    |-> LineOf(t, m.index)]

\* the body of the while loop for the matches ms of pattern p, in order
RECURSIVE ScanMatches(_, _, _, _)
ScanMatches(p, t, ms, acc) ==
    IF ms = <<>> THEN acc
    ELSE ScanMatches(p, t, Tail(ms),
            [matches |-> Append(acc.matches, SecretMatchOf(p, t, Head(ms))),
             redactedText |-> ReplaceFirst(acc.redactedText,
                                           SubSeq(t, Head(ms).index, Head(ms).end - 1),
                                           REDACTED)])

RECURSIVE ScanPatterns(_, _, _)
ScanPatterns(p, t, acc) ==
    IF p > Len(PatternLabels) THEN acc
    ELSE ScanPatterns(p + 1, t, ScanMatches(p, t, ExecAll(p, t, 1), acc))

scanForSecrets(input) ==
    ScanPatterns(1, input, [matches |-> <<>>, redactedText |-> input])

\* the strings match[0] of the matches scanForSecrets reports, in report order
RECURSIVE MatchedFrom(_, _)
MatchedFrom(p, t) ==
    IF p > Len(PatternLabels) THEN <<>>
    ELSE LET ms == ExecAll(p, t, 1)
         IN  [k \in 1..Len(ms) |-> SubSeq(t, ms[k].index, ms[k].end - 1)]
             \o MatchedFrom(p + 1, t)

MatchedStrings(input) == MatchedFrom(1, input)

Occurs(s, t) == \E i \in 1..Len(t) : LitAt(t, i, s)

(***************************************************************************)
(* Context packer (context.ts)                                             *)
(***************************************************************************)
DEFAULT_MAX_BYTES == 200 * 1024

\* raw is the value of AI_REVIEW_MAX_CONTEXT_BYTES: [kind |-> "unset"] (unset or
\* empty), [kind |-> "text"] (Number() gives NaN) or [kind |-> "num", n |-> ...]
getMaxBytes(raw) ==
    IF raw.kind = "unset" THEN DEFAULT_MAX_BYTES
    ELSE IF raw.kind = "text" THEN DEFAULT_MAX_BYTES
    ELSE IF raw.n <= 0 THEN DEFAULT_MAX_BYTES
    ELSE raw.n

\* minimatch(file, pattern, {dot: true}) for the pattern shapes used here:
\* "**" (any path), "*" followed by a literal suffix (one path segment ending
\* in the suffix), and a literal path
Minimatch(file, pattern) ==
    IF pattern = <<"*","*">> THEN TRUE
    ELSE IF pattern # <<>> /\ Head(pattern) = "*"
         THEN /\ "/" \notin Range(file)
              /\ Len(file) >= Len(pattern) - 1
              /\ LitAt(file, Len(file) - Len(pattern) + 2, Tail(pattern))
         ELSE file = pattern

\* Buffer.byteLength(content, "utf8") of an ASCII text
ByteLength(text) == Len(text)

\* faulty variant: no file counts as included already
AlreadyIncludedNever(file, included) == FALSE

\* if (included.has(file)) continue
AlreadyIncluded(file, included) == file \in included

\* one iteration of the inner loop of buildContext
ContextStep(fsys, maxBytes, pattern, file, acc) ==
    IF acc.error # NULL THEN acc
    ELSE IF AlreadyIncluded(file, acc.included) THEN acc
    ELSE IF ~Minimatch(file, pattern) THEN acc
    ELSE IF ~fsys[file].readable THEN [acc EXCEPT !.error = "ENOENT"]
    ELSE IF acc.used + ByteLength(fsys[file].content) > maxBytes
         THEN [acc EXCEPT !.omitted = Append(@, file)]
    ELSE [acc EXCEPT !.included = @ \cup {file},
                     !.used = @ + ByteLength(fsys[file].content),
                     !.files = Append(@, [path |-> file,
                                          content |-> fsys[file].content,
                                          truncated |-> FALSE])]

RECURSIVE ContextFiles(_, _, _, _, _)
ContextFiles(fsys, maxBytes, pattern, files, acc) ==
    IF files = <<>> THEN acc
    ELSE ContextFiles(fsys, maxBytes, pattern, Tail(files),
                      ContextStep(fsys, maxBytes, pattern, Head(files), acc))

RECURSIVE ContextPatterns(_, _, _, _, _)
ContextPatterns(fsys, maxBytes, patterns, trackedFiles, acc) ==
    IF patterns = <<>> THEN acc
    ELSE ContextPatterns(fsys, maxBytes, Tail(patterns), trackedFiles,
                         ContextFiles(fsys, maxBytes, Head(patterns), trackedFiles, acc))

\* the result has error # NULL when a read threw (the promise rejects)
buildContext(fsys, maxBytesRaw, trackedFiles, patterns) ==
    LET r == ContextPatterns(fsys, getMaxBytes(maxBytesRaw), patterns, trackedFiles,
                 [included |-> {}, files |-> <<>>, omitted |-> <<>>, used |-> 0,
                  error |-> NULL])
    IN  [files |-> r.files, omitted |-> r.omitted, error |-> r.error]

\* the lines buildMessages places in the user message for one context file:
\* `## ${file.path}` and file.content, joined by "\n"
FormattedSection(file) == <<"#","#"," ">> \o file.path \o <<"\n">> \o file.content

RECURSIVE SumLen(_)
SumLen(ss) == IF ss = <<>> THEN 0 ELSE Len(Head(ss)) + SumLen(Tail(ss))

FormattedContextBytes(files) ==
    SumLen([k \in 1..Len(files) |-> FormattedSection(files[k])])

(***************************************************************************)
(* Decision validator (openai.ts)                                          *)
(* A JSON scalar is [t |-> "str", s |-> ...] or [t |-> "num", n |-> ...].  *)
(* A payload is [kind, status, blockers, notes]: kind is "object" or       *)
(* "other"; status is a string ("missing" when the key is absent);         *)
(* blockers and notes are [isArray, items]; a blocker item is              *)
(* [isObject, fields] with fields a record of JSON scalars.                *)
(***************************************************************************)
SV(x) == [t |-> "str", s |-> x]
NV(x) == [t |-> "num", n |-> x]

\* String(value)
StringOf(v) == IF v.t = "str" THEN v.s ELSE ToString(v.n)

\* the truthiness of a value
Truthy(v) == IF v.t = "str" THEN v.s # "" ELSE v.n # 0

\* Number(value): [nan |-> TRUE] stands for NaN
NumberOf(v) ==
    IF v.t = "num" THEN [nan |-> FALSE, n |-> v.n]
    ELSE IF v.s = "" THEN [nan |-> FALSE, n |-> 0]
    ELSE IF \E d \in 0..9 : ToString(d) = v.s
         THEN [nan |-> FALSE, n |-> CHOOSE d \in 0..9 : ToString(d) = v.s]
         ELSE [nan |-> TRUE, n |-> 0]

RequiredBlockerKeys == <<"rule", "title", "file", "line_start", "line_end", "why">>

NoReview == [status |-> "none", blockers |-> <<>>, notes |-> <<>>]

Invalid(msg) == [ok |-> FALSE, error |-> msg, review |-> NoReview]

MissingKeys(item) ==
    {k \in 1..Len(RequiredBlockerKeys) : RequiredBlockerKeys[k] \notin DOMAIN item.fields}

\* the error thrown by the callback of blockers.map for item, or NULL
BlockerError(item) ==
    IF ~item.isObject THEN "blocker must be an object"
    ELSE IF MissingKeys(item) # {}
         THEN "blocker missing " \o
              RequiredBlockerKeys[CHOOSE k \in MissingKeys(item) :
                                      \A k2 \in MissingKeys(item) : k <= k2]
         ELSE NULL

\* the object the callback of blockers.map returns for a well-formed item
ParseBlocker(item) ==
    [rule       |-> StringOf(item.fields.rule),
     title      |-> StringOf(item.fields.title),
     file       |-> StringOf(item.fields.file),
     line_start |-> NumberOf(item.fields.line_start),
     line_end   |-> NumberOf(item.fields.line_end),
     why        |-> StringOf(item.fields.why),
     suggested_fix |-> IF "suggested_fix" \in DOMAIN item.fields
                          /\ Truthy(item.fields.suggested_fix)
                       THEN StringOf(item.fields.suggested_fix) ELSE NULL]

\* faulty variant: the final cross-check of status against blockers is left out
BlockersPresentCheckSkipped(parsedBlockers, status) == FALSE

\* if (parsedBlockers.length > 0 && status === "pass")
BlockersPresentCheck(parsedBlockers, status) ==
    Len(parsedBlockers) > 0 /\ status = "pass"

validateFinalReview(payload) ==
    IF payload.kind # "object" THEN Invalid("finalize_review payload is not an object")
    ELSE IF payload.status \notin {"pass", "block"}
         THEN Invalid("status must be \"pass\" or \"block\"")
    ELSE IF ~payload.blockers.isArray THEN Invalid("blockers must be an array")
    ELSE LET items == payload.blockers.items
             bad == {k \in 1..Len(items) : BlockerError(items[k]) # NULL}
             parsedBlockers == [k \in 1..Len(items) |-> ParseBlocker(items[k])]
             parsedNotes == IF payload.notes.isArray
                            THEN [k \in 1..Len(payload.notes.items) |->
                                      StringOf(payload.notes.items[k])]
                            ELSE <<>>
         IN  IF bad # {}
             THEN Invalid(BlockerError(items[CHOOSE k \in bad : \A k2 \in bad : k <= k2]))
             ELSE IF BlockersPresentCheck(parsedBlockers, payload.status)
                  THEN Invalid("status must be \"block\" when blockers are present")
             ELSE [ok |-> TRUE, error |-> NULL,
                   review |-> [status |-> payload.status,
                               blockers |-> parsedBlockers,
                               notes |-> parsedNotes]]

\* A response of the provider is [kind |-> "error"] (the request fails) or
\* [kind |-> "ok", toolCalls |-> <<[name, arguments, payload], ...>>] where
\* arguments is "json" (payload is the parsed text), "invalid" (JSON.parse
\* throws) or "absent" (the code parses "{}" instead).
EmptyObject == [kind |-> "object", status |-> "missing",
                blockers |-> [isArray |-> FALSE, items |-> <<>>],
                notes |-> [isArray |-> FALSE, items |-> <<>>]]

\* faulty variant: a call of any function is taken for the decision
FindToolCallAnyName(calls) == {k \in 1..Len(calls) : TRUE}

\* tool_calls?.find((call) => call?.type === "function" &&
\*                            call.function?.name === "finalize_review"):
\* the positions of the calls that qualify
FindToolCall(calls) == {k \in 1..Len(calls) : calls[k].name = "finalize_review"}

\* the part of executeReview after the response has arrived
DecodeResponse(response) ==
    IF response.kind = "error" THEN Invalid("Connection error.")
    ELSE LET calls == response.toolCalls
             found == FindToolCall(calls)
         IN  IF found = {} THEN Invalid("Model response did not call finalize_review")
             ELSE LET toolCall == calls[CHOOSE k \in found : \A k2 \in found : k <= k2]
                  IN  IF toolCall.arguments = "invalid"
                      THEN Invalid("Unexpected token in JSON")
                      ELSE IF toolCall.arguments = "absent"
                           THEN validateFinalReview(EmptyObject)
                           ELSE validateFinalReview(toolCall.payload)

(***************************************************************************)
(* Review preparation (review.ts)                                          *)
(* The working tree rp is [diff, tracked, files, maxContextBytes]: the     *)
(* diff the change source returns, the tracked paths in ls-files order,    *)
(* per path [readable, content], and AI_REVIEW_MAX_CONTEXT_BYTES.          *)
(***************************************************************************)
NoRequest == [jobKey |-> NULL]

\* no exit code: an error without exitCode property, a process still running
NoCode == 0 - 1

\* the body of the loop over context.files of prepareReview, fileScan being
\* scanForSecrets(file.content); a match of a file carries the file's path,
\* which the code appends to the pattern label
RedactContextFile(file, fileScan) ==
    IF Len(fileScan.matches) > 0
    THEN [file |-> [file EXCEPT !.content = fileScan.redactedText],
          matches |-> [k \in 1..Len(fileScan.matches) |->
                          [pattern |-> fileScan.matches[k].pattern,
                           file    |-> file.path,
                           excerpt |-> fileScan.matches[k].excerpt,
                           line    |-> fileScan.matches[k].line]]]
    ELSE [file |-> file, matches |-> <<>>]

ScanContextFile(file) == RedactContextFile(file, scanForSecrets(file.content))

DiffMatches(diffScan) ==
    [k \in 1..Len(diffScan.matches) |->
        [pattern |-> diffScan.matches[k].pattern, file |-> <<>>,
         excerpt |-> diffScan.matches[k].excerpt, line |-> diffScan.matches[k].line]]

\* matches.push(...) of every scanned file, in order
FileMatches(scans) == Concat([k \in 1..Len(scans) |-> scans[k].matches])

\* faulty variant: the request carries the diff as read
RequestDiffUnredacted(diff, diffScan) == diff

\* diff: diffScan.matches.length > 0 ? diffScan.redactedText : diff
RequestDiff(diff, diffScan) ==
    IF Len(diffScan.matches) > 0 THEN diffScan.redactedText ELSE diff

\* contextFiles.map(...): the redacted copy of a file that had a match
RequestContextFiles(scans) == [k \in 1..Len(scans) |-> scans[k].file]

\* let redacted = diffScan.matches.length > 0, set to true in the loop by
\* every file with a match
RequestRedacted(diffScan, scans) ==
    Len(diffScan.matches) > 0 \/ \E k \in 1..Len(scans) : Len(scans[k].matches) > 0

\* faulty variant: a dry run or a preview is let through
SecretsAbortUnlessDry(matches, options) ==
    Len(matches) > 0 /\ ~options.dangerouslyAllowSecrets
                     /\ ~options.dryRun /\ ~options.preview

\* if (matches.length > 0 && !options.dangerouslyAllowSecrets)
SecretsAbort(matches, options) ==
    Len(matches) > 0 /\ ~options.dangerouslyAllowSecrets

\* prepareReview once the context is packed and everything is scanned
BuildRequest(rp, kind, oldRevision, newRevision, options, jobKey, context, diffScan, scans, matches) ==
    IF context.error # NULL
    THEN [ok |-> FALSE, exitCode |-> NoCode, request |-> NoRequest, matches |-> <<>>]
    ELSE IF SecretsAbort(matches, options)
    THEN [ok |-> FALSE, exitCode |-> 1, request |-> NoRequest, matches |-> matches]
    ELSE [ok |-> TRUE, exitCode |-> NoCode, matches |-> matches,
          request |->
            [kind |-> kind,
             oldRevision |-> oldRevision,
             newRevision |-> newRevision,
             diff |-> RequestDiff(rp.diff, diffScan),
             summary |-> [bytes |-> ByteLength(rp.diff)],
             contextFiles |-> RequestContextFiles(scans),
             omittedContext |-> context.omitted,
             redacted |-> RequestRedacted(diffScan, scans),
             jobKey |-> jobKey,
             projectContext |-> options.projectContext,
             objective |-> options.objective,
             preview |-> options.preview,
             dryRun |-> options.dryRun,
             dangerouslyAllowSecrets |-> options.dangerouslyAllowSecrets]]

ScanContextFiles(context) ==
    [k \in 1..Len(context.files) |-> ScanContextFile(context.files[k])]

ScanAll(rp, kind, oldRevision, newRevision, options, jobKey, context, diffScan, scans) ==
    BuildRequest(rp, kind, oldRevision, newRevision, options, jobKey,
                 context, diffScan, scans, DiffMatches(diffScan) \o FileMatches(scans))

PackAndScan(rp, kind, oldRevision, newRevision, options, jobKey, context) ==
    ScanAll(rp, kind, oldRevision, newRevision, options, jobKey,
            context, scanForSecrets(rp.diff), ScanContextFiles(context))

\* the result is [ok, exitCode, request, matches]: ok = FALSE when the
\* promise rejects, exitCode being the exitCode property of the error
\* (NoCode when the error has none)
prepareReview(rp, kind, oldRevision, newRevision, options, jobKey) ==
    PackAndScan(rp, kind, oldRevision, newRevision, options, jobKey,
                buildContext(rp.files, rp.maxContextBytes, rp.tracked,
                             options.projectContext))

(***************************************************************************)
(* Job store (jobs.ts)                                                     *)
(***************************************************************************)
JobAbsent == [status |-> "absent"]

\* a file that is there and that JSON.parse rejects: an empty file, and a file
\* holding a part of a record
JobEmpty == [status |-> "empty"]
JobCorrupt == [status |-> "corrupt"]

\* fs.readFile rejects, or JSON.parse throws
Unreadable(job) == job.status \in {"absent", "empty", "corrupt"}

\* the record createJob writes
NewJob(request) ==
    [key |-> request.jobKey, status |-> "pending", request |-> request, log |-> <<>>]

\* { ...job, ...changes }
Merge(job, changes) == changes @@ job

JobPath(key) == "jobs/" \o key \o ".json"
ReviewPath(key) == "reviews/" \o key \o ".json"

(***************************************************************************)
(* The pre-receive command of the legacy CLI (index.ts)                    *)
(* An update is [old, newRef, ref, bytes, mergeBase, review]: the three    *)
(* fields of its input line, the size of `git diff effectiveOld newRef`,   *)
(* the output of `git merge-base defaultBranch newRef` (NULL when it fails *)
(* or prints nothing) and what the provider answers when asked for a       *)
(* review of it: "pass" (pass: true), "fail" (pass: false) or "error" (the *)
(* request throws).                                                        *)
(***************************************************************************)
ZERO == "0000000000000000000000000000000000000000"

EmptyTree == "4b825dc642cb6eb9a060e54bf8d69288fbee4904"

DefaultMaxDiffBytes == 800000

RefsHeadsGlob == <<"r","e","f","s","/","h","e","a","d","s","/","*">>
RefsTagsGlob  == <<"r","e","f","s","/","t","a","g","s","/","*">>

\* new RegExp("^" + esc.replace(/\\\*/g, ".*").replace(/\\\?/g, ".") + "$").test(text)
RECURSIVE globLike(_, _)
globLike(text, pattern) ==
    IF pattern = <<>> THEN text = <<>>
    ELSE IF Head(pattern) = "*"
         THEN \/ globLike(text, Tail(pattern))
              \/ text # <<>> /\ globLike(Tail(text), pattern)
    ELSE IF Head(pattern) = "?"
         THEN text # <<>> /\ Head(text) # "\n" /\ globLike(Tail(text), Tail(pattern))
    ELSE text # <<>> /\ Head(text) = Head(pattern) /\ globLike(Tail(text), Tail(pattern))

matchesAny(text, patterns) ==
    \E k \in 1..Len(patterns) : globLike(text, patterns[k])

includePatterns(opts) == <<RefsHeadsGlob>> \o opts.include

excludePatterns(opts) ==
    (IF opts.includeTags THEN <<>> ELSE <<RefsTagsGlob>>) \o opts.exclude

\* updates.filter((u) => matchesAny(u.ref, includePatterns) && !matchesAny(u.ref, excludePatterns))
PassesFilter(u, opts) ==
    matchesAny(u.ref, includePatterns(opts)) /\ ~matchesAny(u.ref, excludePatterns(opts))

FilterUpdates(updates, opts) ==
    SelectSeq(updates, LAMBDA u : PassesFilter(u, opts))

\* const maxBytes: parseInt of --max-diff-bytes, else of the environment
\* variable, else 800000; anything not a positive number gives 800000
maxDiffBytes(raw) ==
    IF raw.kind = "num" /\ raw.n > 0 THEN raw.n ELSE DefaultMaxDiffBytes

determineNewRefBase(u) ==
    IF u.mergeBase # NULL THEN u.mergeBase ELSE EmptyTree

\* faulty variant: the old id of the input line is used as it is
effectiveOldAsGiven(u) == u.old

\* const effectiveOld = u.old !== ZERO ? u.old : await determineNewRefBase(...)
effectiveOld(u) ==
    IF u.old # ZERO THEN u.old ELSE determineNewRefBase(u)

\* getGitContextFromRange: the base of the two `git diff` commands of reviewRange
RangeBase(oldRef) == IF oldRef = ZERO THEN EmptyTree ELSE oldRef

\* reviewRange: [kind |-> "throws"] stands for a rejected promise
reviewRange(u, preview) ==
    IF u.bytes = 0 THEN [kind |-> "no-changes", pass |-> FALSE, requested |-> FALSE]
    ELSE IF preview THEN [kind |-> "preview-shown", pass |-> FALSE, requested |-> FALSE]
    ELSE IF u.review = "error" THEN [kind |-> "throws", pass |-> FALSE, requested |-> TRUE]
    ELSE [kind |-> "review-done", pass |-> (u.review = "pass"), requested |-> TRUE]

\* faulty variant: a diff of exactly the cap is rejected too
OverCapInclusive(bytes, maxBytes) == bytes >= maxBytes

\* if (bytes > maxBytes)
OverCap(bytes, maxBytes) == bytes > maxBytes

\* faulty variant: the loop goes on after a failure whatever the policy
AfterFailureGoOn(continueOnFail) == "loop"

\* if (!continueOnFail) break: where control goes after a recorded failure
AfterFailure(continueOnFail) == IF continueOnFail THEN "loop" ELSE "exit"

\* faulty variant: the kind is misspelt, so the test never succeeds
ReviewFailedMisspelt(result) == result.kind = "review_done" /\ ~result.pass

\* if (result.kind === "review-done" && !result.pass)
ReviewFailed(result) == result.kind = "review-done" /\ ~result.pass

(***************************************************************************)
(* Inputs of the scanner: texts made of at most MaxPieces pieces.          *)
(***************************************************************************)
MaxPieces == 4

ApiKeyAssign == <<"a","p","i","_","k","e","y","=">> \o Rep("A", ApiKeyMinLen)
SecretAssign == <<"s","e","c","r","e","t","=">> \o Rep("B", SecretMinLen)
PemHeader    == PemBegin \o <<"R","S","A"," ">> \o PemEnd
GhpToken     == <<"g","h","p","_">> \o Rep("C", GhpMinLen)
SkToken      == <<"s","k","-">> \o Rep("D", SkMinLen)
ShortKey     == <<"A","P","I","_","K","E","Y","=","s","k","-","t","e","s","t","-","1","2","3">>
Blank        == <<" ">>
Newline      == <<"\n">>

Pieces == {ApiKeyAssign, SecretAssign, PemHeader, GhpToken, SkToken, ShortKey,
           Blank, Newline}

PieceLists == UNION {[1..n -> Pieces] : n \in 0..MaxPieces}
ScanTexts == {Concat(ps) : ps \in PieceLists}

(***************************************************************************)
(* The review CLI, the worker and the job store together.                  *)
(***************************************************************************)
MaxInv == 2
MaxWorkers == 2
MaxIOFailures == 1

Keys == {"k1", "k2"}
Invs == 1..MaxInv
Workers == 1..MaxWorkers

CleanDiff  == <<"+","o","k">>
SecretDiff == <<"+">> \o SkToken
CleanText  == <<"o","k">>
NotesMd    == <<"n",".","m","d">>
AnyPath    == <<"*","*">>

\* working trees: the tracked file may have been deleted from the working
\* tree (readable = FALSE)
RepoStates ==
    {[diff |-> d, tracked |-> <<NotesMd>>,
      files |-> [p \in {NotesMd} |-> [readable |-> r, content |-> c]],
      maxContextBytes |-> [kind |-> "unset"]] :
        d \in {CleanDiff, SecretDiff}, c \in {CleanText, ApiKeyAssign}, r \in BOOLEAN}

ReviewOptions ==
    [projectContext : {<<>>, <<AnyPath>>},
     objective : {NULL, "fix"},
     preview : BOOLEAN,
     dryRun : BOOLEAN,
     dangerouslyAllowSecrets : BOOLEAN]

GoodBlocker ==
    [isObject |-> TRUE,
     fields |-> [rule |-> SV("R1"), title |-> SV("t"), file |-> SV("f"),
                 line_start |-> NV(1), line_end |-> NV(2), why |-> SV("w")]]
CoercedBlocker ==
    [isObject |-> TRUE,
     fields |-> [rule |-> NV(7), title |-> SV("t"), file |-> SV("f"),
                 line_start |-> SV("x"), line_end |-> NV(2), why |-> SV("w")]]
NoWhyBlocker ==
    [isObject |-> TRUE,
     fields |-> [rule |-> SV("R1"), title |-> SV("t"), file |-> SV("f"),
                 line_start |-> NV(1), line_end |-> NV(2)]]
NotAnObject == [isObject |-> FALSE, fields |-> [rule |-> SV("R1")]]

Arr(items) == [isArray |-> TRUE, items |-> items]
NotArr == [isArray |-> FALSE, items |-> <<>>]

\* payloads the validator is applied to on its own
Payloads ==
    {[kind |-> "object", status |-> st, blockers |-> b, notes |-> n] :
        st \in {"pass", "block", "warn", "missing"},
        b \in {NotArr, Arr(<<>>), Arr(<<GoodBlocker>>), Arr(<<NotAnObject>>),
               Arr(<<GoodBlocker, NoWhyBlocker>>), Arr(<<CoercedBlocker>>),
               Arr(<<GoodBlocker, CoercedBlocker>>)},
        n \in {NotArr, Arr(<<>>), Arr(<<SV("n"), NV(3)>>)}}
    \cup {[EmptyObject EXCEPT !.kind = "other"]}

Call(name, arguments, payload) ==
    [name |-> name, arguments |-> arguments, payload |-> payload]

PassPayload == [kind |-> "object", status |-> "pass", blockers |-> Arr(<<>>),
                notes |-> Arr(<<>>)]
BlockPayload == [kind |-> "object", status |-> "block",
                 blockers |-> Arr(<<GoodBlocker>>), notes |-> Arr(<<>>)]
PassWithBlockerPayload == [BlockPayload EXCEPT !.status = "pass"]
CoercedPayload == [kind |-> "object", status |-> "block",
                   blockers |-> Arr(<<CoercedBlocker>>), notes |-> NotArr]

\* responses of the provider to a worker's request
Responses ==
    {[kind |-> "error", toolCalls |-> <<>>]}
    \cup {[kind |-> "ok", toolCalls |-> cs] :
            cs \in {<<>>,
                    <<Call("other_function", "json", PassPayload)>>,
                    <<Call("finalize_review", "json", PassPayload)>>,
                    <<Call("finalize_review", "json", BlockPayload)>>,
                    <<Call("finalize_review", "json", PassWithBlockerPayload)>>,
                    <<Call("finalize_review", "json", CoercedPayload)>>,
                    <<Call("finalize_review", "invalid", EmptyObject)>>,
                    <<Call("finalize_review", "json", PassPayload),
                      Call("finalize_review", "json", BlockPayload)>>}}

PlainOptions ==
    [projectContext : {<<>>},
     objective : {NULL, "fix"},
     preview : {FALSE},
     dryRun : {FALSE},
     dangerouslyAllowSecrets : {FALSE}]

CleanRepo ==
    [diff |-> CleanDiff, tracked |-> <<NotesMd>>,
     files |-> [p \in {NotesMd} |-> [readable |-> TRUE, content |-> CleanText]],
     maxContextBytes |-> [kind |-> "unset"]]

\* a review command that has not run yet, with its command line
InvIdle(kind, options) ==
    [pc |-> "idle", kind |-> kind, options |-> options, key |-> NULL,
     request |-> NoRequest, worker |-> 0, exitCode |-> NoCode]

\* a slot in which no review command is run
InvOff == [InvIdle("range", CHOOSE o \in PlainOptions : TRUE) EXCEPT !.pc = "off"]

\* returned tells a worker whose runWorker returned its exit code from one
\* whose runWorker rejected
WkUnused == [pc |-> "unused", key |-> NULL, job |-> JobAbsent,
             result |-> NoReview, reviewPath |-> NULL, error |-> NULL,
             exitCode |-> NoCode, returned |-> FALSE]

CtxIdle == [pc |-> "idle"]

\* no review file under a key; written collects every review saveReview wrote
\* to the file so far
NoReviewFile == [exists |-> FALSE, written |-> {}]

PrIdle == [pc |-> "idle"]

ScanIdle == [pc |-> "idle", input |-> <<>>, result |-> NULL, rescan |-> NULL]

MaxTails == 1
MaxWaits == 1

Tails == 1..MaxTails

\* a tail command that has not run: done is the variable of tailJob, last the
\* status printed last, waited the number of one-second sleeps so far (counted
\* up to MaxWaits), exitCode the exit code of the process
TailUnused == [pc |-> "unused", key |-> NULL, done |-> FALSE, last |-> NULL,
               waited |-> 0, exitCode |-> NoCode]

\* Several review commands of the same clean working tree, differing at most
\* in their objective, and worker commands run by hand.
Init ==
    /\ scan = ScanIdle
    /\ ctx = CtxIdle
    /\ pr = PrIdle
    /\ repo = CleanRepo
    /\ jobs = [k \in Keys |-> JobAbsent]
    /\ reviews = [k \in Keys |-> NoReviewFile]
    /\ inv \in [Invs -> {InvIdle("range", o) : o \in PlainOptions}]
    /\ wk = [w \in Workers |-> WkUnused]
    /\ apiCalls = {}
    /\ ioFailures = 0
    /\ tail = [t \in Tails |-> TailUnused]

\* One review command with any command line on any working tree.
InitPipeline ==
    /\ scan = ScanIdle
    /\ ctx = CtxIdle
    /\ pr = PrIdle
    /\ repo \in RepoStates
    /\ jobs = [k \in Keys |-> JobAbsent]
    /\ reviews = [k \in Keys |-> NoReviewFile]
    /\ \E kind \in {"staged", "range"}, o \in ReviewOptions :
        inv = [i \in Invs |-> IF i = 1 THEN InvIdle(kind, o) ELSE InvOff]
    /\ wk = [w \in Workers |-> WkUnused]
    /\ apiCalls = {}
    /\ ioFailures = 0
    /\ tail = [t \in Tails |-> TailUnused]

Active(w) == wk[w].pc \notin {"unused", "exited"}

WriteMayFail == ioFailures < MaxIOFailures

\* const exit = await runWorker(repoRoot, jobKey); process.exit(exit)
Exit(w, code) == [wk[w] EXCEPT !.pc = "exited", !.exitCode = code, !.returned = TRUE]

\* runWorker rejects: parseAsync(...).catch sets process.exitCode = error.exitCode ?? 1
Reject(w) == [wk[w] EXCEPT !.pc = "exited", !.exitCode = 1]

\* faulty variant: the two codes are swapped
WorkerExitCodeSwapped(result) == IF result.status = "pass" THEN 1 ELSE 0

\* return result.status === "pass" ? 0 : 1
WorkerExitCode(result) == IF result.status = "pass" THEN 0 ELSE 1

\* handleReview after prepareReview has settled with prep, up to and
\* including the spawn of the worker
HandlePrepared(i, key, prep) ==
    LET options == inv[i].options
        me   == [inv[i] EXCEPT !.key = key, !.request = prep.request]
        done(code) == [me EXCEPT !.pc = "done", !.exitCode = code]
    IN  \/ /\ ~prep.ok
           \* parseAsync(...).catch: process.exitCode = error.exitCode ?? 1
           /\ inv' = [inv EXCEPT ![i] =
                        done(IF prep.exitCode # NoCode THEN prep.exitCode ELSE 1)]
           /\ UNCHANGED <<jobs, wk, ioFailures>>
        \/ /\ prep.ok /\ options.preview
           /\ inv' = [inv EXCEPT ![i] = done(0)]
           /\ UNCHANGED <<jobs, wk, ioFailures>>
        \/ /\ prep.ok /\ options.preview
           \* previewMessages rejects: no system prompt in the repository, or
           \* extra parameters that JSON.parse rejects
           /\ inv' = [inv EXCEPT ![i] = done(1)]
           /\ UNCHANGED <<jobs, wk, ioFailures>>
        \/ /\ prep.ok /\ ~options.preview /\ options.dryRun
           /\ inv' = [inv EXCEPT ![i] = done(0)]
           /\ UNCHANGED <<jobs, wk, ioFailures>>
        \/ /\ prep.ok /\ ~options.preview /\ ~options.dryRun
           \* createJob writes the record, spawnWorker starts the worker
           /\ \E w \in Workers :
                /\ wk[w].pc = "unused"
                /\ \A w2 \in 1..(w - 1) : wk[w2].pc # "unused"
                /\ wk' = [wk EXCEPT ![w] = [WkUnused EXCEPT !.pc = "load", !.key = key]]
                /\ inv' = [inv EXCEPT ![i] = [me EXCEPT !.pc = "waiting", !.worker = w]]
           /\ jobs' = [jobs EXCEPT ![key] = NewJob(prep.request)]
           /\ UNCHANGED ioFailures
        \/ /\ prep.ok /\ ~options.preview /\ ~options.dryRun
           \* createJob: fs.writeFile rejects
           /\ WriteMayFail
           /\ ioFailures' = ioFailures + 1
           /\ inv' = [inv EXCEPT ![i] = done(1)]
           /\ UNCHANGED <<jobs, wk>>

\* the effective base and the new revision of a range review
OldRevision(kind) == IF kind = "range" THEN "HEAD~1" ELSE NULL
NewRevision(kind) == IF kind = "range" THEN "HEAD" ELSE NULL

\* handleReview.  The key is the value generateJobKey returns: time of day and
\* three random bytes.
HandleReview(i) ==
    /\ inv[i].pc = "idle"
    /\ \A j \in 1..(i - 1) : inv[j].pc # "idle"
    /\ \E key \in Keys :
        HandlePrepared(i, key,
            prepareReview(repo, inv[i].kind, OldRevision(inv[i].kind),
                          NewRevision(inv[i].kind), inv[i].options, key))
    /\ UNCHANGED <<scan, ctx, pr, repo, reviews, apiCalls, tail>>

\* spawnWorker: the child closed; `return code ?? 0`
WorkerClosed(i) ==
    /\ inv[i].pc = "waiting"
    /\ wk[inv[i].worker].pc = "exited"
    /\ inv' = [inv EXCEPT ![i].pc = "done",
                          ![i].exitCode = IF wk[inv[i].worker].exitCode = NoCode THEN 0
                                          ELSE wk[inv[i].worker].exitCode]
    /\ UNCHANGED <<scan, ctx, pr, repo, jobs, reviews, wk, apiCalls, ioFailures, tail>>

\* `ai-review worker <jobKey>` run by hand
WorkerCommandFor(w, key) ==
    /\ wk[w].pc = "unused"
    /\ \A w2 \in 1..(w - 1) : wk[w2].pc # "unused"
    /\ wk' = [wk EXCEPT ![w] = [WkUnused EXCEPT !.pc = "load", !.key = key]]
    /\ UNCHANGED <<scan, ctx, pr, repo, jobs, reviews, inv, apiCalls, ioFailures, tail>>

WorkerCommand(w) == \E key \in Keys : WorkerCommandFor(w, key)

(***************************************************************************)
(* runWorker, one action per await (worker.ts)                             *)
(***************************************************************************)
WUnchanged == UNCHANGED <<scan, ctx, pr, repo, inv, tail>>

\* updateJob(job, changes) succeeding: the merged record is written and returned
WriteJob(w, changes, nextPc) ==
    LET merged == Merge(wk[w].job, changes)
    IN  /\ jobs' = [jobs EXCEPT ![wk[w].job.key] = merged]
        /\ wk' = [wk EXCEPT ![w].job = merged, ![w].pc = nextPc]
        /\ UNCHANGED ioFailures

\* a rejected promise inside the try block: control moves to the catch clause
Throw(w, message) ==
    wk' = [wk EXCEPT ![w].pc = "catch", ![w].error = message]

\* fs.writeFile rejects inside the try block
WriteFails(w) ==
    /\ WriteMayFail
    /\ ioFailures' = ioFailures + 1
    /\ Throw(w, "EIO: i/o error, write")
    /\ UNCHANGED jobs

\* let job = await loadJob(repoRoot, jobKey): a missing record makes readFile
\* reject and an unparsable one makes JSON.parse throw; the command's promise
\* rejects and the process ends with exit code 1
WLoad(w) ==
    /\ wk[w].pc = "load"
    /\ IF Unreadable(jobs[wk[w].key])
       THEN wk' = [wk EXCEPT ![w] = Reject(w)]
       ELSE wk' = [wk EXCEPT ![w].job = jobs[wk[w].key], ![w].pc = "setRunning"]
    /\ UNCHANGED <<jobs, reviews, apiCalls, ioFailures>>
    /\ WUnchanged

\* job = await updateJob(repoRoot, job, { status: "running" }), outside the try
WSetRunning(w) ==
    /\ wk[w].pc = "setRunning"
    /\ \/ WriteJob(w, [status |-> "running"], "logStart")
       \/ /\ WriteMayFail
          /\ ioFailures' = ioFailures + 1
          /\ wk' = [wk EXCEPT ![w] = Reject(w)]
          /\ UNCHANGED jobs
    /\ UNCHANGED <<reviews, apiCalls>>
    /\ WUnchanged

\* job = await appendJobLog(repoRoot, job, "Starting review worker.")
WLogStart(w) ==
    /\ wk[w].pc = "logStart"
    /\ \/ WriteJob(w, [log |-> Append(wk[w].job.log, "Starting review worker.")],
                   "execute")
       \/ WriteFails(w)
    /\ UNCHANGED <<reviews, apiCalls>>
    /\ WUnchanged

\* const result = await executeReview({ repoRoot, request: job.request }):
\* either the set-up throws before anything is sent (no system prompt, no API
\* key, no model, unparsable extra params), or the request is sent and the
\* response decoded
WExecute(w) ==
    /\ wk[w].pc = "execute"
    /\ \/ /\ Throw(w, "AI_REVIEW_OPENAI_KEY environment variable is required.")
          /\ UNCHANGED apiCalls
       \/ \E response \in Responses :
            LET decoded == DecodeResponse(response)
            IN  /\ apiCalls' = apiCalls \cup {[worker |-> w, key |-> wk[w].key,
                                                 request |-> wk[w].job.request,
                                                 response |-> response]}
                /\ IF decoded.ok
                   THEN wk' = [wk EXCEPT ![w].result = decoded.review,
                                         ![w].pc = "saveReview"]
                   ELSE Throw(w, decoded.error)
    /\ UNCHANGED <<jobs, reviews, ioFailures>>
    /\ WUnchanged

\* const reviewPath = await saveReview(repoRoot, job, result)
WSaveReview(w) ==
    /\ wk[w].pc = "saveReview"
    /\ \/ /\ reviews' = [reviews EXCEPT ![wk[w].job.key] =
                            [exists |-> TRUE, review |-> wk[w].result,
                             request |-> wk[w].job.request,
                             written |-> @.written \cup {wk[w].result}]]
          /\ wk' = [wk EXCEPT ![w].reviewPath = ReviewPath(wk[w].job.key),
                              ![w].pc = "setCompleted"]
          /\ UNCHANGED <<jobs, ioFailures>>
       \/ /\ WriteFails(w)
          /\ UNCHANGED reviews
    /\ UNCHANGED apiCalls
    /\ WUnchanged

\* faulty variant: the path of the review file is not recorded
CompletedChangesWithoutPath(result, reviewPath) ==
    [status |-> "completed", result |-> result]

\* { status: "completed", result, reviewPath }
CompletedChanges(result, reviewPath) ==
    [status |-> "completed", result |-> result, reviewPath |-> reviewPath]

\* job = await updateJob(repoRoot, job, { status: "completed", result, reviewPath })
WSetCompleted(w) ==
    /\ wk[w].pc = "setCompleted"
    /\ \/ WriteJob(w, CompletedChanges(wk[w].result, wk[w].reviewPath), "logStored")
       \/ WriteFails(w)
    /\ UNCHANGED <<reviews, apiCalls>>
    /\ WUnchanged

\* job = await appendJobLog(repoRoot, job, `Review stored at ${reviewPath}`);
\* printFinalResult(result); return result.status === "pass" ? 0 : 1
WLogStored(w) ==
    /\ wk[w].pc = "logStored"
    /\ \/ LET merged == Merge(wk[w].job,
                              [log |-> Append(wk[w].job.log, "Review stored at "
                                                             \o wk[w].reviewPath)])
          IN  /\ jobs' = [jobs EXCEPT ![wk[w].job.key] = merged]
              /\ wk' = [wk EXCEPT ![w] =
                          [Exit(w, WorkerExitCode(wk[w].result))
                              EXCEPT !.job = merged]]
              /\ UNCHANGED ioFailures
       \/ WriteFails(w)
    /\ UNCHANGED <<reviews, apiCalls>>
    /\ WUnchanged

\* catch (error): await updateJob(repoRoot, job, { status: "failed", error: message });
\* return error.exitCode ?? 2.  No error thrown inside the try block has an exitCode.
WCatch(w) ==
    /\ wk[w].pc = "catch"
    /\ \/ LET merged == Merge(wk[w].job, [status |-> "failed", error |-> wk[w].error])
          IN  /\ jobs' = [jobs EXCEPT ![wk[w].job.key] = merged]
              /\ wk' = [wk EXCEPT ![w] = [Exit(w, 2) EXCEPT !.job = merged]]
              /\ UNCHANGED ioFailures
       \/ /\ WriteMayFail
          /\ ioFailures' = ioFailures + 1
          /\ wk' = [wk EXCEPT ![w] = Reject(w)]
          /\ UNCHANGED jobs
    /\ UNCHANGED <<reviews, apiCalls>>
    /\ WUnchanged

Next ==
    \/ \E i \in Invs : HandleReview(i)
    \/ \E i \in Invs : WorkerClosed(i)
    \/ \E w \in Workers : WorkerCommand(w)
    \/ \E w \in Workers : WLoad(w)
    \/ \E w \in Workers : WSetRunning(w)
    \/ \E w \in Workers : WLogStart(w)
    \/ \E w \in Workers : WExecute(w)
    \/ \E w \in Workers : WSaveReview(w)
    \/ \E w \in Workers : WSetCompleted(w)
    \/ \E w \in Workers : WLogStored(w)
    \/ \E w \in Workers : WCatch(w)

Spec == Init /\ [][Next]_vars

\* the same commands without worker commands run by hand
NextPipeline ==
    \/ \E i \in Invs : HandleReview(i)
    \/ \E i \in Invs : WorkerClosed(i)
    \/ \E w \in Workers : WLoad(w)
    \/ \E w \in Workers : WSetRunning(w)
    \/ \E w \in Workers : WLogStart(w)
    \/ \E w \in Workers : WExecute(w)
    \/ \E w \in Workers : WSaveReview(w)
    \/ \E w \in Workers : WSetCompleted(w)
    \/ \E w \in Workers : WLogStored(w)
    \/ \E w \in Workers : WCatch(w)

SpecPipeline == InitPipeline /\ [][NextPipeline]_vars

\* the worker process is ended by a signal (kill, out-of-memory killer,
\* Ctrl-C in the terminal it shares with the review command): the child's
\* "close" event carries code null
WorkerKilled(w) ==
    /\ Active(w)
    /\ wk' = [wk EXCEPT ![w].pc = "exited", ![w].exitCode = NoCode]
    /\ UNCHANGED <<jobs, reviews, apiCalls, ioFailures>>
    /\ WUnchanged

\* one review command whose worker may be killed
NextKilled ==
    \/ NextPipeline
    \/ \E w \in Workers : WorkerKilled(w)

SpecKilled == InitPipeline /\ [][NextKilled]_vars

(***************************************************************************)
(* tailJob (index.ts of the job-based CLI): one review command, worker     *)
(* commands run by hand and tail commands.                                 *)
(***************************************************************************)
TailUnchanged ==
    UNCHANGED <<scan, ctx, pr, repo, jobs, reviews, inv, wk, apiCalls, ioFailures>>

\* `ai-review tail <jobKey>`: up to the first call of printStatus
TailCommand(t, key) ==
    /\ tail[t].pc = "unused"
    /\ \A t2 \in 1..(t - 1) : tail[t2].pc # "unused"
    /\ tail' = [tail EXCEPT ![t] = [TailUnused EXCEPT !.pc = "printStatus", !.key = key]]
    /\ TailUnchanged

\* printStatus reading raw: no file or an empty file (`if (!raw) return`)
\* changes nothing; a text JSON.parse rejects makes tailJob reject, and the
\* process ends with exit code 1; the process ends with exit code 0 once done
\* is set
TailRead(t, data) ==
    IF data.status \in {"absent", "empty"} THEN [tail[t] EXCEPT !.pc = "sleep"]
    ELSE IF data.status = "corrupt" THEN [tail[t] EXCEPT !.pc = "failed", !.exitCode = 1]
    ELSE LET done == data.status \in {"completed", "failed"}
         IN  [tail[t] EXCEPT !.last = data.status,
                             !.done = done,
                             !.pc = IF done THEN "returned" ELSE "sleep",
                             !.exitCode = IF done THEN 0 ELSE @]

\* await printStatus() and the test of the while loop after it
TailPrintStatus(t) ==
    /\ tail[t].pc = "printStatus"
    /\ tail' = [tail EXCEPT ![t] = TailRead(t, jobs[tail[t].key])]
    /\ TailUnchanged

\* await new Promise((resolve) => setTimeout(resolve, 1000))
TailSleep(t) ==
    /\ tail[t].pc = "sleep"
    /\ tail' = [tail EXCEPT ![t].pc = "printStatus",
                            ![t].waited = IF @ < MaxWaits THEN @ + 1 ELSE @]
    /\ TailUnchanged

TailStep(t) == TailPrintStatus(t) \/ TailSleep(t)

WorkerStep(w) ==
    \/ WLoad(w) \/ WSetRunning(w) \/ WLogStart(w) \/ WExecute(w)
    \/ WSaveReview(w) \/ WSetCompleted(w) \/ WLogStored(w) \/ WCatch(w)

\* one review command of the clean working tree without options
InitTail ==
    /\ scan = ScanIdle
    /\ ctx = CtxIdle
    /\ pr = PrIdle
    /\ repo = CleanRepo
    /\ jobs = [k \in Keys |-> JobAbsent]
    /\ reviews = [k \in Keys |-> NoReviewFile]
    /\ inv = [i \in Invs |-> IF i = 1 THEN InvIdle("range", CHOOSE o \in PlainOptions : TRUE)
                                     ELSE InvOff]
    /\ wk = [w \in Workers |-> WkUnused]
    /\ apiCalls = {}
    /\ ioFailures = 0
    /\ tail = [t \in Tails |-> TailUnused]

\* console.log(`Created review job ${job.key} at ${jobPath}`): the keys a user
\* can pass to the worker and tail commands are those a review command printed
Printed(key) == \E i \in Invs : inv[i].pc \in {"waiting", "done"} /\ inv[i].key = key
                                /\ inv[i].worker # 0

NextTail ==
    \/ \E i \in Invs : HandleReview(i)
    \/ \E i \in Invs : WorkerClosed(i)
    \/ \E w \in Workers, key \in Keys : Printed(key) /\ WorkerCommandFor(w, key)
    \/ \E w \in Workers : WorkerStep(w)
    \/ \E t \in Tails, key \in Keys : Printed(key) /\ TailCommand(t, key)
    \/ \E t \in Tails : TailStep(t)

\* every started process goes on running: a worker takes its next step (the
\* provider answers or the request fails), a tail command polls again
SpecTail ==
    /\ InitTail
    /\ [][NextTail]_vars
    /\ \A w \in Workers : WF_vars(WorkerStep(w))
    /\ \A t \in Tails : WF_vars(TailStep(t))

(***************************************************************************)
(* The readers of a job record: a worker command and a tail command run by *)
(* hand on any key, the job store holding what earlier commands left.      *)
(***************************************************************************)
\* the record a review command of the clean working tree wrote under key
PendingJob(key) ==
    NewJob(prepareReview(CleanRepo, "range", OldRevision("range"), NewRevision("range"),
                         CHOOSE o \in PlainOptions : TRUE, key).request)

StoredJobs(key) == {JobAbsent, JobEmpty, JobCorrupt, PendingJob(key)}

InitReaders ==
    /\ scan = ScanIdle
    /\ ctx = CtxIdle
    /\ pr = PrIdle
    /\ repo = CleanRepo
    /\ jobs \in {f \in [Keys -> UNION {StoredJobs(k) : k \in Keys}] :
                    \A k \in Keys : f[k] \in StoredJobs(k)}
    /\ reviews = [k \in Keys |-> NoReviewFile]
    /\ inv = [i \in Invs |-> InvOff]
    /\ wk = [w \in Workers |-> WkUnused]
    /\ apiCalls = {}
    /\ ioFailures = 0
    /\ tail = [t \in Tails |-> TailUnused]

\* a worker is between the call of fs.writeFile on the record of key and its
\* completion: the file was opened with flag "w" (truncated) and is being filled
Writing(key) ==
    \E w \in Workers :
        /\ wk[w].key = key
        /\ wk[w].pc \in {"setRunning", "logStart", "setCompleted", "logStored", "catch"}

\* the readFile of printStatus runs while a worker's writeFile on the same
\* file is under way: it may return the empty text or a part of the new text
TailTornRead(t) ==
    /\ tail[t].pc = "printStatus"
    /\ Writing(tail[t].key)
    /\ \E data \in {JobEmpty, JobCorrupt} :
          tail' = [tail EXCEPT ![t] = TailRead(t, data)]
    /\ TailUnchanged

NextReaders ==
    \/ \E key \in Keys : WorkerCommandFor(1, key)
    \/ \E w \in Workers : WorkerStep(w)
    \/ \E t \in Tails, key \in Keys : TailCommand(t, key)
    \/ \E t \in Tails : TailStep(t)
    \/ \E t \in Tails : TailTornRead(t)

SpecReaders == InitReaders /\ [][NextReaders]_vars

(***************************************************************************)
(* The scanner on its own: scan a text, then scan the redacted text.       *)
(***************************************************************************)
\* no review command runs: the job store is empty and stays so
MainIdle ==
    /\ repo = CleanRepo
    /\ jobs = [k \in Keys |-> JobAbsent]
    /\ reviews = [k \in Keys |-> NoReviewFile]
    /\ inv = [i \in Invs |-> InvOff]
    /\ wk = [w \in Workers |-> WkUnused]
    /\ apiCalls = {}
    /\ ioFailures = 0
    /\ tail = [t \in Tails |-> TailUnused]

mainVars == <<repo, jobs, reviews, inv, wk, apiCalls, ioFailures, tail>>

ScanInit ==
    /\ \E t \in ScanTexts :
        scan = [pc |-> "start", input |-> t, result |-> NULL, rescan |-> NULL]
    /\ ctx = CtxIdle
    /\ pr = PrIdle
    /\ MainIdle

ScanText ==
    /\ scan.pc = "start"
    /\ scan' = [scan EXCEPT !.pc = "scanned", !.result = scanForSecrets(scan.input)]
    /\ UNCHANGED <<ctx, pr, mainVars>>

RescanRedacted ==
    /\ scan.pc = "scanned"
    /\ scan' = [scan EXCEPT !.pc = "rescanned",
                            !.rescan = scanForSecrets(scan.result.redactedText)]
    /\ UNCHANGED <<ctx, pr, mainVars>>

ScanNext == ScanText \/ RescanRedacted

SpecScan == ScanInit /\ [][ScanNext]_vars

(***************************************************************************)
(* The context packer on its own: tracked files of any sizes, any pattern  *)
(* list and any budget.                                                    *)
(***************************************************************************)
MaxFileBytes == 3
MaxBudget == 4

AMd == <<"a",".","m","d">>
BTs == <<"b",".","t","s">>
MdGlob == <<"*",".","m","d">>

ContextPatternLists ==
    {<<AnyPath>>, <<MdGlob>>, <<MdGlob, AnyPath>>, <<AnyPath, AnyPath>>, <<BTs, AnyPath>>}

ContextBudgets ==
    {[kind |-> "unset", n |-> 0], [kind |-> "text", n |-> 0]}
    \cup {[kind |-> "num", n |-> n] : n \in 0..MaxBudget}

ContextInit ==
    /\ scan = ScanIdle
    /\ pr = PrIdle
    /\ MainIdle
    /\ \E sa \in 0..MaxFileBytes, sb \in 0..MaxFileBytes, rb \in BOOLEAN,
          ps \in ContextPatternLists, raw \in ContextBudgets :
        ctx = [pc |-> "start",
               fsys |-> (AMd :> [readable |-> TRUE, content |-> Rep("x", sa)])
                        @@ (BTs :> [readable |-> rb, content |-> Rep("y", sb)]),
               tracked |-> <<AMd, BTs>>,
               patterns |-> ps,
               maxBytesRaw |-> raw,
               result |-> NULL]

BuildContext ==
    /\ ctx.pc = "start"
    /\ ctx' = [ctx EXCEPT !.pc = "built",
                          !.result = buildContext(ctx.fsys, ctx.maxBytesRaw,
                                                  ctx.tracked, ctx.patterns)]
    /\ UNCHANGED <<scan, pr, mainVars>>

ContextNext == BuildContext

SpecContext == ContextInit /\ [][ContextNext]_vars

(***************************************************************************)
(* The pre-receive command on its own.                                     *)
(***************************************************************************)
MaxUpdates == 2

RefsHeadsMain == <<"r","e","f","s","/","h","e","a","d","s","/","m","a","i","n">>
RefsTagsV1    == <<"r","e","f","s","/","t","a","g","s","/","v","1">>

SmallCap == 10

Update(old, newRef, ref, bytes, mergeBase, review) ==
    [old |-> old, newRef |-> newRef, ref |-> ref, bytes |-> bytes,
     mergeBase |-> mergeBase, review |-> review]

UpdateInputs ==
    {Update("c1", "c2", RefsHeadsMain, 5, "mb", "pass"),
     Update("c1", "c2", RefsHeadsMain, 5, "mb", "fail"),
     Update("c1", "c2", RefsHeadsMain, 5, "mb", "error"),
     Update("c1", "c2", RefsHeadsMain, DefaultMaxDiffBytes + 1, "mb", "pass"),
     Update("c1", "c2", RefsHeadsMain, SmallCap + 1, "mb", "pass"),
     Update("c1", "c2", RefsHeadsMain, SmallCap, "mb", "pass"),
     Update("c1", "c2", RefsHeadsMain, 0, "mb", "pass"),
     Update("c1", ZERO, RefsHeadsMain, 0, "mb", "fail"),
     Update(ZERO, "c2", RefsHeadsMain, 5, "mb", "pass"),
     Update(ZERO, "c2", RefsHeadsMain, 5, NULL, "fail"),
     Update("c1", "c2", RefsTagsV1, 5, "mb", "fail")}

UpdateLists == UNION {[1..n -> UpdateInputs] : n \in 0..MaxUpdates}

PreReceiveOptions ==
    [continueOnFail : BOOLEAN,
     preview : BOOLEAN,
     include : {<<>>, <<RefsTagsGlob>>},
     exclude : {<<>>},
     includeTags : BOOLEAN,
     maxDiffBytes : {[kind |-> "unset", n |-> 0], [kind |-> "num", n |-> SmallCap]}]

PreReceiveInit ==
    /\ scan = ScanIdle
    /\ ctx = CtxIdle
    /\ MainIdle
    /\ \E input \in UpdateLists, opts \in PreReceiveOptions :
        pr = [pc |-> "start", opts |-> opts, input |-> input, updates |-> <<>>,
              queue |-> <<>>, anyFailed |-> FALSE, calls |-> <<>>, requests |-> 0,
              log |-> <<>>, exitCode |-> NoCode]

PrExit(code) == [pr EXCEPT !.pc = "exited", !.exitCode = code]

\* from the start of run to the loop: the two early exits and the filter
PreReceiveStart ==
    /\ pr.pc = "start"
    /\ LET updates == FilterUpdates(pr.input, pr.opts)
       IN  IF Len(pr.input) = 0 THEN pr' = PrExit(0)
           ELSE IF Len(updates) = 0 THEN pr' = PrExit(0)
           ELSE pr' = [pr EXCEPT !.pc = "loop", !.updates = updates, !.queue = updates]
    /\ UNCHANGED <<scan, ctx, mainVars>>

\* what one iteration of the loop did with update u: whether its diff was
\* measured and against which base, whether it was found over the cap,
\* whether reviewRange was called and with which base, and whether a request
\* was sent to the provider
Iteration(u, sized, oversize, reviewed, requested) ==
    [u |-> u, sized |-> sized, oversize |-> oversize, reviewed |-> reviewed,
     requested |-> requested,
     sizeBase |-> IF sized THEN effectiveOld(u) ELSE NULL,
     reviewBase |-> IF reviewed THEN RangeBase(effectiveOld(u)) ELSE NULL]

\* one iteration of `for (const u of updates)`
PreReceiveUpdate ==
    /\ pr.pc = "loop"
    /\ pr.queue # <<>>
    /\ LET u == Head(pr.queue)
           result == reviewRange(u, pr.opts.preview)
           skipped == [pr EXCEPT !.queue = Tail(pr.queue),
                                 !.log = Append(@, Iteration(u, FALSE, FALSE, FALSE, FALSE))]
           rejected == [pr EXCEPT !.queue = Tail(pr.queue),
                                  !.log = Append(@, Iteration(u, TRUE, TRUE, FALSE, FALSE))]
           called == [pr EXCEPT !.queue = Tail(pr.queue),
                                !.log = Append(@, Iteration(u, TRUE, FALSE, TRUE,
                                                            result.requested)),
                                !.calls = Append(@, [old |-> effectiveOld(u),
                                                     new |-> u.newRef,
                                                     ref |-> u.ref]),
                                !.requests = IF result.requested THEN @ + 1 ELSE @]
       IN  IF u.newRef = ZERO THEN pr' = skipped
           ELSE IF OverCap(u.bytes, maxDiffBytes(pr.opts.maxDiffBytes))
                THEN pr' = [rejected EXCEPT !.anyFailed = TRUE,
                                            !.pc = AfterFailure(pr.opts.continueOnFail)]
           ELSE IF result.kind = "throws"
                THEN pr' = [called EXCEPT !.pc = "exited", !.exitCode = 2]
           ELSE IF ReviewFailed(result)
                THEN pr' = [called EXCEPT !.anyFailed = TRUE,
                                          !.pc = AfterFailure(pr.opts.continueOnFail)]
           ELSE pr' = called
    /\ UNCHANGED <<scan, ctx, mainVars>>

\* process.exit(anyFailed ? 1 : 0)
PreReceiveExit ==
    /\ \/ pr.pc = "exit"
       \/ pr.pc = "loop" /\ pr.queue = <<>>
    /\ pr' = PrExit(IF pr.anyFailed THEN 1 ELSE 0)
    /\ UNCHANGED <<scan, ctx, mainVars>>

PreReceiveNext == PreReceiveStart \/ PreReceiveUpdate \/ PreReceiveExit

SpecPreReceive == PreReceiveInit /\ [][PreReceiveNext]_vars

(***************************************************************************)
(* Properties                                                              *)
(***************************************************************************)
Terminal(status) == status \in {"completed", "failed"}

\* the inputs the specification derives the job identity from; the model id,
\* the extra parameters and the system message are the same for every
\* invocation of a behaviour
IdentityOf(i) ==
    <<OldRevision(inv[i].kind), NewRevision(inv[i].kind), inv[i].options.projectContext>>

HasMatch(text) == Len(scanForSecrets(text).matches) > 0

AnyHasMatch(files) == \E k \in 1..Len(files) : HasMatch(files[k].content)

\* the scan of the diff or of a packed context file yields a match
SecretInInputs(rp, options) ==
    \/ HasMatch(rp.diff)
    \/ AnyHasMatch(buildContext(rp.files, rp.maxContextBytes, rp.tracked,
                                options.projectContext).files)

FinalReviewInvariant(review) == Len(review.blockers) > 0 => review.status = "block"

\* C1: once the record of a job has status completed or failed, no step
\* changes its status (createJob writing a new pending record under the same
\* key aside).
C1_TerminalStatusFinal ==
    [][\A k \in Keys :
          Terminal(jobs[k].status)
          => jobs'[k].status \in {jobs[k].status, "pending"}]_vars

\* C2: a review command whose diff or packed context files hold a secret
\* match and that runs without the override ends with exit code 1, and no job
\* record exists, no worker was started and no request reached the provider;
\* --dry-run and --preview make no difference.
C2_PreflightAbort ==
    \A i \in Invs :
        (/\ inv[i].pc \notin {"idle", "off"}
         /\ ~inv[i].options.dangerouslyAllowSecrets
         /\ SecretInInputs(repo, inv[i].options))
        => /\ inv[i].pc = "done"
           /\ inv[i].exitCode = 1
           /\ \A k \in Keys : jobs[k] = JobAbsent
           /\ \A w \in Workers : wk[w].pc = "unused"
           /\ apiCalls = {}

C2_Witness ==
    /\ inv[1].pc = "done"
    /\ inv[1].exitCode = 1
    /\ inv[1].options.dryRun
    /\ ~inv[1].options.dangerouslyAllowSecrets
    /\ ~HasMatch(repo.diff)
    /\ SecretInInputs(repo, inv[1].options)

\* C3: a pre-receive run without --preview that ends with exit code 0 had, for
\* every update that passes the include/exclude filter and is no deletion, a
\* diff within the byte cap and no failed review.
C3_ExitZeroOnlyIfAllPassed ==
    (pr.pc = "exited" /\ ~pr.opts.preview /\ pr.exitCode = 0)
    => \A k \in 1..Len(pr.input) :
          (PassesFilter(pr.input[k], pr.opts) /\ pr.input[k].newRef # ZERO)
          => /\ pr.input[k].bytes <= maxDiffBytes(pr.opts.maxDiffBytes)
             /\ (pr.input[k].bytes = 0 \/ pr.input[k].review = "pass")

C3_Witness ==
    /\ pr.pc = "exited"
    /\ ~pr.opts.preview
    /\ pr.exitCode = 0
    /\ pr.requests = MaxUpdates

\* C4: the validator rejects every payload whose blockers are non-empty and
\* whose status is not block, and every review stored in a job record or in a
\* review file has status block when it has blockers.
C4_StoredReviewsValid ==
    /\ \A p \in Payloads :
          (p.blockers.isArray /\ Len(p.blockers.items) > 0 /\ p.status # "block")
          => ~validateFinalReview(p).ok
    /\ \A k \in Keys :
          /\ "result" \in DOMAIN jobs[k] => FinalReviewInvariant(jobs[k].result)
          /\ reviews[k].exists => FinalReviewInvariant(reviews[k].review)

C4_Witness ==
    /\ \E k \in Keys :
          /\ jobs[k].status = "failed"
          /\ jobs[k].error = "status must be \"block\" when blockers are present"
    /\ \A k \in Keys : ~reviews[k].exists

\* C5: two review commands with the same identity never have a worker each
\* active at the same time.
C5_OneWorkerPerIdentity ==
    \A i, j \in Invs :
        (/\ i # j
         /\ inv[i].pc = "waiting"
         /\ inv[j].pc = "waiting"
         /\ IdentityOf(i) = IdentityOf(j))
        => ~(Active(inv[i].worker) /\ Active(inv[j].worker))

\* C6: two review commands with the same identity get the same job key,
\* whatever their objectives.
C6_KeyIsFunctionOfIdentity ==
    \A i, j \in Invs :
        (/\ inv[i].key # NULL
         /\ inv[j].key # NULL
         /\ IdentityOf(i) = IdentityOf(j))
        => inv[i].key = inv[j].key

\* C7: the formatted sections of the packed context files, path header and
\* content, are together no larger than the configured budget.
C7_ContextWithinBudget ==
    (ctx.pc = "built" /\ ctx.result.error = NULL)
    => FormattedContextBytes(ctx.result.files) <= getMaxBytes(ctx.maxBytesRaw)

\* C8: no substring the scan reported as a match occurs in the redacted text.
C8_NoMatchSurvives ==
    scan.pc # "start"
    => \A k \in DOMAIN MatchedStrings(scan.input) :
          ~Occurs(MatchedStrings(scan.input)[k], scan.result.redactedText)

\* C9: scanning the redacted text of a scan yields no match.
C9_RescanFindsNothing ==
    scan.pc = "rescanned" => scan.rescan.matches = <<>>

\* what C10 requires of a request built from working tree rp, packed being
\* the files buildContext returned for the request's patterns
RedactionOk(request, rp, packed) ==
    /\ HasMatch(rp.diff) => request.diff = scanForSecrets(rp.diff).redactedText
    /\ Len(request.contextFiles) = Len(packed)
    /\ \A k \in 1..Len(packed) :
          HasMatch(packed[k].content)
          => request.contextFiles[k].content
                = scanForSecrets(packed[k].content).redactedText
    /\ request.redacted = (HasMatch(rp.diff) \/ AnyHasMatch(packed))

RequestOk(request) ==
    RedactionOk(request, repo,
                buildContext(repo.files, repo.maxContextBytes, repo.tracked,
                             request.projectContext).files)

\* C10: the request stored in a job record and the request sent to the
\* provider carry the scanner's redacted text for the diff and for every
\* context file with a match, with redacted = TRUE exactly when something
\* matched.
C10_RequestIsRedacted ==
    /\ \A k \in Keys : jobs[k].status # "absent" => RequestOk(jobs[k].request)
    /\ \A c \in apiCalls : RequestOk(c.request)

C10_Witness ==
    \E c \in apiCalls :
        /\ c.request.dangerouslyAllowSecrets
        /\ c.request.redacted
        /\ c.request.diff # repo.diff
        /\ Len(c.request.contextFiles) > 0
        /\ jobs[c.key].request = c.request

NoFinalizeCall(response) ==
    /\ response.kind = "ok"
    /\ \A k \in 1..Len(response.toolCalls) :
          response.toolCalls[k].name # "finalize_review"

\* C12: when the answer to a worker's request holds no call of
\* finalize_review, no review file is written and the record is never
\* completed; once the worker has exited (no write having failed) the record
\* is failed with the error message, the worker's exit code is 2 and so is the
\* exit code of the review command that waited for it.
C12_MissingToolCallFails ==
    \A c \in apiCalls :
        NoFinalizeCall(c.response)
        => /\ ~reviews[c.key].exists
           /\ jobs[c.key].status # "completed"
           /\ (wk[c.worker].pc = "exited" /\ ioFailures = 0)
              => /\ jobs[c.key].status = "failed"
                 /\ jobs[c.key].error = "Model response did not call finalize_review"
                 /\ wk[c.worker].exitCode = 2
                 /\ \A i \in Invs :
                       (inv[i].pc = "done" /\ inv[i].worker = c.worker)
                       => inv[i].exitCode = 2

C12_Witness ==
    \E c \in apiCalls :
        /\ NoFinalizeCall(c.response)
        /\ Len(c.response.toolCalls) > 0
        /\ jobs[c.key].status = "failed"
        /\ \E i \in Invs : /\ inv[i].pc = "done"
                           /\ inv[i].worker = c.worker
                           /\ inv[i].exitCode = 2

\* an update fails: its diff is over the cap, or a review of it is requested
\* and the answer is not a pass
UpdateFails(u, opts) ==
    /\ u.newRef # ZERO
    /\ \/ u.bytes > maxDiffBytes(opts.maxDiffBytes)
       \/ u.bytes # 0 /\ ~opts.preview /\ u.review # "pass"

RequestsLogged == Cardinality({j \in 1..Len(pr.log) : pr.log[j].requested})

\* C13: without --continue-on-fail the loop takes the filtered updates in
\* input order, and an update that fails is the last one the loop handles:
\* no later update is measured or reviewed and no further request is sent.
C13_StopAtFirstFailure ==
    ~pr.opts.continueOnFail
    => /\ pr.updates = SelectSeq(pr.input, LAMBDA u : PassesFilter(u, pr.opts))
          \/ pr.pc = "start"
       /\ Len(pr.log) <= Len(pr.updates)
       /\ \A j \in 1..Len(pr.log) : pr.log[j].u = pr.updates[j]
       /\ \A j \in 1..(Len(pr.log) - 1) : ~UpdateFails(pr.log[j].u, pr.opts)
       /\ pr.requests = RequestsLogged

C13_Witness ==
    /\ ~pr.opts.continueOnFail
    /\ pr.pc = "exited"
    /\ pr.exitCode = 1
    /\ Len(pr.updates) = 2
    /\ Len(pr.log) = 1
    /\ pr.log[1].requested
    /\ pr.updates[2].newRef # ZERO
    /\ pr.updates[2].bytes > 0

\* C14: with --continue-on-fail, when the command has ended every filtered
\* update that is no deletion was measured and, if within the cap, handed to
\* reviewRange, whatever happened to the updates before it.
C14_ContinueProcessesAll ==
    (pr.opts.continueOnFail /\ pr.pc = "exited")
    => \A k \in 1..Len(pr.updates) :
          pr.updates[k].newRef # ZERO
          => /\ Len(pr.log) >= k
             /\ pr.log[k].sized
             /\ pr.updates[k].bytes <= maxDiffBytes(pr.opts.maxDiffBytes)
                => pr.log[k].reviewed

RefsHeadsPrefix == <<"r","e","f","s","/","h","e","a","d","s","/">>
RefsTagsPrefix  == <<"r","e","f","s","/","t","a","g","s","/">>

\* the k-th update of the input is among the updates the loop works on
Kept(k) == \E j \in 1..Len(pr.updates) : pr.updates[j] = pr.input[k]

\* C15: with no --include and no --exclude option, an update of a ref under
\* refs/heads/ is kept by the filter and an update of a ref under refs/tags/
\* is not, unless --include-tags is given, which makes the filter keep it.
C15_RefFiltering ==
    (pr.pc # "start" /\ pr.opts.include = <<>> /\ pr.opts.exclude = <<>>)
    => \A k \in 1..Len(pr.input) :
          /\ LitAt(pr.input[k].ref, 1, RefsHeadsPrefix) => Kept(k)
          /\ LitAt(pr.input[k].ref, 1, RefsTagsPrefix)
             => (Kept(k) <=> pr.opts.includeTags)

\* the base the specification prescribes for update u
PrescribedBase(u) ==
    IF u.old # ZERO THEN u.old
    ELSE IF u.mergeBase # NULL THEN u.mergeBase
    ELSE EmptyTree

\* C16: every update that is no deletion is measured, and the base of the
\* measured diff and the base of the reviewed diff are the old id when it is
\* not all zeros, else the merge-base with the default branch when there is
\* one, else the empty tree; the all-zero id is never a base.
C16_EffectiveBase ==
    \A j \in 1..Len(pr.log) :
        /\ pr.log[j].u.newRef # ZERO => pr.log[j].sized
        /\ pr.log[j].sized
           => pr.log[j].sizeBase = PrescribedBase(pr.log[j].u) /\ pr.log[j].sizeBase # ZERO
        /\ pr.log[j].reviewed
           => pr.log[j].reviewBase = PrescribedBase(pr.log[j].u) /\ pr.log[j].reviewBase # ZERO

C16_Witness ==
    \E j \in 1..Len(pr.log) :
        /\ pr.log[j].u.old = ZERO
        /\ pr.log[j].u.mergeBase = NULL
        /\ pr.log[j].requested
        /\ pr.log[j].sizeBase = EmptyTree
        /\ pr.log[j].reviewBase = EmptyTree

\* C17: an update whose diff is larger than the cap is recorded as failed, is
\* not handed to reviewRange and causes no request, whatever the provider
\* would answer, and the command does not end with exit code 0; an update
\* whose diff is not larger than the cap is not rejected for its size.
C17_SizeCap ==
    /\ \A j \in 1..Len(pr.log) :
          pr.log[j].sized
          => IF pr.log[j].u.bytes > maxDiffBytes(pr.opts.maxDiffBytes)
             THEN /\ pr.log[j].oversize
                  /\ ~pr.log[j].reviewed
                  /\ ~pr.log[j].requested
                  /\ pr.anyFailed
                  /\ pr.pc = "exited" => pr.exitCode # 0
             ELSE ~pr.log[j].oversize
    /\ Len(pr.calls) = Cardinality({j \in 1..Len(pr.log) : pr.log[j].reviewed})

C17_Witness ==
    /\ pr.pc = "exited"
    /\ pr.exitCode = 1
    /\ Len(pr.log) = 2
    /\ pr.log[1].oversize
    /\ pr.log[1].u.review = "pass"
    /\ pr.log[2].requested
    /\ pr.requests = 1

\* the number of times path occurs in the list paths
TimesIn(path, paths) == Cardinality({k \in 1..Len(paths) : paths[k] = path})

\* C18: a tracked path that matches a pattern and is not among the packed
\* files occurs exactly once in the omitted list.
C18_OmittedOnce ==
    (ctx.pc = "built" /\ ctx.result.error = NULL)
    => \A k \in 1..Len(ctx.tracked) :
          (/\ \E p \in 1..Len(ctx.patterns) : Minimatch(ctx.tracked[k], ctx.patterns[p])
           /\ \A f \in 1..Len(ctx.result.files) :
                 ctx.result.files[f].path # ctx.tracked[k])
          => TimesIn(ctx.tracked[k], ctx.result.omitted) = 1

\* tail command t is waiting for the record of its key
Attached(t) == tail[t].pc \in {"printStatus", "sleep"}

\* C19: for every timeout of T seconds a caller may set, a tail command that
\* has waited T seconds without reading a terminal status has stopped waiting.
C19_TimeoutEndsWaiting ==
    \A t \in Tails : \A T \in 1..MaxWaits :
        (tail[t].waited >= T /\ ~tail[t].done) => ~Attached(t)

\* C20: a tail command returns only after it has read the status completed
\* or failed, and a tail command that waits for a key whose record holds a
\* terminal status eventually returns.
C20_TailReturns ==
    /\ [](\A t \in Tails :
            tail[t].pc = "returned" => tail[t].last \in {"completed", "failed"})
    /\ \A t \in Tails :
          (Attached(t) /\ Terminal(jobs[tail[t].key].status))
          ~> (tail[t].pc = "returned")

\* C21: a worker that loads, and a tail command that polls, a record that is
\* missing or cannot be parsed ends at that step with an error (exit code 1),
\* and the step leaves the job store as it is.
C21_UnreadableRecordSurfaced ==
    [][/\ \A w \in Workers :
             (wk[w].pc = "load" /\ Unreadable(jobs[wk[w].key]) /\ wk'[w] # wk[w])
             => wk'[w].pc = "exited" /\ wk'[w].exitCode = 1 /\ jobs' = jobs
       /\ \A t \in Tails :
             (tail[t].pc = "printStatus" /\ Unreadable(jobs[tail[t].key])
                                         /\ tail'[t] # tail[t])
             => tail'[t].pc = "failed" /\ tail'[t].exitCode = 1 /\ jobs' = jobs]_vars

\* C22: a review command run with --preview or --dry-run whose inputs hold no
\* secret match ends with exit code 0, and no job record exists, no worker was
\* started, no request reached the provider and no review file was written.
C22_PreviewDryRunNoEffects ==
    \A i \in Invs :
        (/\ inv[i].pc = "done"
         /\ inv[i].options.preview \/ inv[i].options.dryRun
         /\ ~SecretInInputs(repo, inv[i].options))
        => /\ inv[i].exitCode = 0
           /\ \A k \in Keys : jobs[k] = JobAbsent /\ ~reviews[k].exists
           /\ \A w \in Workers : wk[w].pc = "unused"
           /\ apiCalls = {}

\* a finished preview or dry run left no record, worker, request or review file
DryRunsLeaveNoTrace ==
    \A i \in Invs :
        (inv[i].pc = "done" /\ (inv[i].options.preview \/ inv[i].options.dryRun))
        => /\ \A k \in Keys : jobs[k] = JobAbsent /\ ~reviews[k].exists
           /\ \A w \in Workers : wk[w].pc = "unused"
           /\ apiCalls = {}

\* the list a is an initial part of the list b
IsPrefix(a, b) == Len(a) <= Len(b) /\ \A j \in 1..Len(a) : a[j] = b[j]

\* C23: every step that rewrites an existing job record, createJob writing a
\* new pending record aside, keeps the record's key and request, and the new
\* log starts with the whole of the old log.
C23_RewriteKeepsIdentityAndLog ==
    [][\A k \in Keys :
          (/\ ~Unreadable(jobs[k])
           /\ jobs'[k] # jobs[k]
           /\ jobs'[k].status # "pending")
          => /\ jobs'[k].key = jobs[k].key
             /\ jobs'[k].request = jobs[k].request
             /\ IsPrefix(jobs[k].log, jobs'[k].log)]_vars

StringKeys == {"rule", "title", "file", "why"}
IntegerKeys == {"line_start", "line_end"}

\* a blocker object one of whose required fields has the wrong primitive type
WrongType(item) ==
    /\ item.isObject
    /\ \/ \E k \in StringKeys \cap DOMAIN item.fields : item.fields[k].t # "str"
       \/ \E k \in IntegerKeys \cap DOMAIN item.fields : item.fields[k].t # "num"

NotesAreStrings(payload) ==
    /\ payload.notes.isArray
    /\ \A k \in 1..Len(payload.notes.items) : payload.notes.items[k].t = "str"

\* the payloads C24 is about
WronglyTyped(payload) ==
    /\ payload.kind = "object"
    /\ \/ /\ payload.blockers.isArray
          /\ \E k \in 1..Len(payload.blockers.items) : WrongType(payload.blockers.items[k])
       \/ ~NotesAreStrings(payload)

\* the payload of the call the worker decodes, when the answer has one
DecidesWith(response, payload) ==
    /\ response.kind = "ok"
    /\ FindToolCall(response.toolCalls) # {}
    /\ LET k == CHOOSE k \in FindToolCall(response.toolCalls) :
                    \A k2 \in FindToolCall(response.toolCalls) : k <= k2
       IN  /\ response.toolCalls[k].arguments = "json"
           /\ response.toolCalls[k].payload = payload

\* C24: the validator rejects every payload with a blocker field of the wrong
\* primitive type or with notes that are missing or not an array of strings,
\* and a worker that is answered with such a payload writes no review file
\* and never completes the job.
C24_WrongTypesRejected ==
    /\ \A p \in Payloads : WronglyTyped(p) => ~validateFinalReview(p).ok
    /\ \A c \in apiCalls : \A p \in Payloads :
          (DecidesWith(c.response, p) /\ WronglyTyped(p))
          => ~reviews[c.key].exists /\ jobs[c.key].status # "completed"

\* the number of calls of finalize_review in an answer
DecisionCalls(response) ==
    Cardinality({k \in 1..Len(response.toolCalls) :
                    response.toolCalls[k].name = "finalize_review"})

\* C25: when the answer to a worker's request calls finalize_review more than
\* once, no review file is written and the job is never completed; once the
\* worker has exited (no write having failed) the record is failed and the
\* worker's exit code is 2.
C25_SingleDecisionCall ==
    \A c \in apiCalls :
        (c.response.kind = "ok" /\ DecisionCalls(c.response) > 1)
        => /\ ~reviews[c.key].exists
           /\ jobs[c.key].status # "completed"
           /\ (wk[c.worker].pc = "exited" /\ ioFailures = 0)
              => jobs[c.key].status = "failed" /\ wk[c.worker].exitCode = 2

\* tracked path f matches one of the patterns of the packer's run
IsCandidate(f) == \E p \in 1..Len(ctx.patterns) : Minimatch(f, ctx.patterns[p])

IsPacked(f) == \E k \in 1..Len(ctx.result.files) : ctx.result.files[k].path = f

IsOmitted(f) == \E k \in 1..Len(ctx.result.omitted) : ctx.result.omitted[k] = f

\* C26: packing never fails on a candidate that cannot be read: the file is
\* left out, and every readable candidate is still packed or listed as
\* omitted.
C26_UnreadableSkipped ==
    ctx.pc = "built"
    => /\ ctx.result.error = NULL
       /\ \A k \in 1..Len(ctx.tracked) :
             LET f == ctx.tracked[k]
             IN  IsCandidate(f)
                 => IF ctx.fsys[f].readable THEN IsPacked(f) \/ IsOmitted(f)
                    ELSE ~IsPacked(f)

\* the review is what the validator returned for the answer to a request
\* made for key k
Validated(k, review) ==
    \E c \in apiCalls :
        /\ c.key = k
        /\ DecodeResponse(c.response).ok
        /\ DecodeResponse(c.response).review = review

HoldsReview(job) ==
    /\ "result" \in DOMAIN job
    /\ "reviewPath" \in DOMAIN job

\* C27: a record with status completed holds a result the validator
\* accepted and the path of the review file, and saveReview wrote that result
\* to the review file of the key before the step that persisted the status
\* completed with it; a record with status failed holds an error message.
C27_TerminalRecordsComplete ==
    /\ [](\A k \in Keys :
            /\ jobs[k].status = "completed"
               => /\ HoldsReview(jobs[k])
                  /\ Validated(k, jobs[k].result)
                  /\ FinalReviewInvariant(jobs[k].result)
                  /\ jobs[k].reviewPath = ReviewPath(k)
                  /\ reviews[k].exists
                  /\ jobs[k].result \in reviews[k].written
            /\ jobs[k].status = "failed"
               => "error" \in DOMAIN jobs[k] /\ jobs[k].error # NULL)
    /\ [][\A k \in Keys :
            (jobs'[k].status = "completed" /\ jobs'[k] # jobs[k])
            => HoldsReview(jobs'[k]) /\ jobs'[k].result \in reviews[k].written]_vars

C27_Witness ==
    \E k \in Keys :
        /\ jobs[k].status = "completed"
        /\ Len(jobs[k].result.blockers) > 0
        /\ reviews[k].review = jobs[k].result
        /\ \E w \in Workers : wk[w].pc = "exited" /\ wk[w].key = k /\ wk[w].exitCode = 1

\* C28: a review command that is neither a preview nor a dry run ends with
\* exit code 0 only if it created a job whose record is completed with a
\* result of status pass.
C28_ExitZeroOnlyIfPassed ==
    \A i \in Invs :
        (/\ inv[i].pc = "done"
         /\ ~inv[i].options.preview
         /\ ~inv[i].options.dryRun
         /\ inv[i].exitCode = 0)
        => /\ inv[i].worker # 0
           /\ jobs[inv[i].key].status = "completed"
           /\ jobs[inv[i].key].result.status = "pass"

\* C29: every poll of a tail command ends as a poll that read the record as
\* it is stored under the key does, whether or not a worker is rewriting the
\* record: the poll neither fails nor passes over a stored status.
C29_PollSeesWholeRecord ==
    [][\A t \in Tails :
          (tail[t].pc = "printStatus" /\ tail'[t] # tail[t])
          => \/ tail'[t] = TailRead(t, jobs[tail[t].key])
             \/ tail'[t] = TailRead(t, jobs'[tail[t].key])]_vars

\* the position of the first pattern that matches f, and the position of f
\* among the tracked paths
FirstMatch(f) ==
    CHOOSE p \in 1..Len(ctx.patterns) :
        /\ Minimatch(f, ctx.patterns[p])
        /\ \A q \in 1..(p - 1) : ~Minimatch(f, ctx.patterns[q])

TrackedIndex(f) == CHOOSE k \in 1..Len(ctx.tracked) : ctx.tracked[k] = f

\* f is matched first before g is: by an earlier pattern, or by the same
\* pattern and earlier among the tracked paths
MatchedBefore(f, g) ==
    \/ FirstMatch(f) < FirstMatch(g)
    \/ FirstMatch(f) = FirstMatch(g) /\ TrackedIndex(f) < TrackedIndex(g)

\* C30: when packing returns, every tracked path that matches a pattern is
\* either among the packed files or in the omitted list and never in both,
\* no other path is in either, and the packed files hold no path twice and
\* are in the order in which the paths were first matched.
C30_PackingPartitions ==
    (ctx.pc = "built" /\ ctx.result.error = NULL)
    => /\ \A k \in 1..Len(ctx.tracked) :
             LET f == ctx.tracked[k]
             IN  IF IsCandidate(f) THEN IsPacked(f) # IsOmitted(f)
                 ELSE ~IsPacked(f) /\ ~IsOmitted(f)
       /\ \A i, j \in 1..Len(ctx.result.files) :
             i < j => /\ ctx.result.files[i].path # ctx.result.files[j].path
                      /\ MatchedBefore(ctx.result.files[i].path, ctx.result.files[j].path)

C30_Witness ==
    /\ ctx.pc = "built"
    /\ ctx.result.error = NULL
    /\ ctx.patterns = <<BTs, AnyPath>>
    /\ Len(ctx.result.files) = 1
    /\ ctx.result.files[1].path = BTs
    /\ IsOmitted(AMd)
    /\ ByteLength(ctx.fsys[AMd].content) <= getMaxBytes(ctx.maxBytesRaw)

=============================================================================
